---- MODULE Spec2Model ----
(***************************************************************************)
(* Radium: pairs-trading back-test.                                        *)
(*                                                                         *)
(*   radium/pair/pair.py          Pair.hedge, Pair.price_spread,           *)
(*                                Pair._hedge_ols                          *)
(*   radium/strategy/_returns.py  returns  (the same body is repeated in   *)
(*                                Strategy.returns, strategy.py)           *)
(*                                                                         *)
(* Real numbers are exact: close prices are integers counting PriceScale-th*)
(* of a currency unit, positions are integers counting PosScale-th of a    *)
(* share, and regression slopes / spreads / the return are reduced         *)
(* fractions <<numerator, denominator>>.  Date indexes are 0-based, as in  *)
(* the source.                                                             *)
(***************************************************************************)
EXTENDS Integers, Sequences, FiniteSets, TLC

VARIABLES
    closed,             \* <<equity1.closed, equity2.closed>>, each [0..n-1 -> price]
    hedge_ratios,       \* Pair.hedge_ratios: Absent, or [0..n-1 -> <<h1, h2>>]
    _price_spread,      \* Pair._price_spread: Absent, or [0..n-1 -> spread]
    last_call,          \* the last public call made on the pair, with its arguments
    last_err,           \* the exception that call raised, or NoError
    last_read,          \* the value the last price_spread read returned
    ever_hedged,        \* history: some hedge() call has completed without raising
    ever_read,          \* history: some price_spread read has returned a value
    positions,          \* Strategy.positions(): [0..n-1 -> <<p1, p2>>]
    lookback,           \* Strategy.lookback
    rounded_positions,  \* returns(): locals after the call
    orders,
    comm,
    init_budget,
    budget,
    ret,
    pc                  \* "idle" before returns() has run, "done" after

pairVars == <<hedge_ratios, _price_spread, last_call, last_err, last_read,
              ever_hedged, ever_read>>
strategyVars == <<positions, lookback, rounded_positions, orders, comm,
                  init_budget, budget, ret, pc>>
vars == <<closed, pairVars, strategyVars>>

-----------------------------------------------------------------------------
(* Bounds *)

MaxDates == 4               \* most aligned dates of a pair under Spec
MaxLookback == 3            \* largest lookback passed to hedge()
MaxBacktestDates == 3       \* most aligned dates of a pair under SpecReturns
MaxStrategyLookback == 2    \* largest Strategy.lookback

PairPrices1 == {1, 3}       \* closes of equity1 under Spec
PairPrices2 == {1, 2}       \* closes of equity2 under Spec

-----------------------------------------------------------------------------
(* Exact arithmetic *)

Abs(x) == IF x < 0 THEN -x ELSE x
Max(a, b) == IF a >= b THEN a ELSE b

RECURSIVE Gcd(_, _)
Gcd(a, b) == IF b = 0 THEN a ELSE Gcd(b, a % b)

Frac(num, den) ==
    LET g == Gcd(Abs(num), Abs(den))
        s == IF den < 0 THEN -1 ELSE 1
    IN  <<(s * num) \div g, (s * den) \div g>>
Int2Frac(x) == <<x, 1>>
FracAdd(a, b) == Frac(a[1] * b[2] + b[1] * a[2], a[2] * b[2])
FracMul(a, b) == Frac(a[1] * b[1], a[2] * b[2])
FracNeg(a) == <<-a[1], a[2]>>

RECURSIVE SumOver(_, _)
SumOver(S, f) ==
    IF S = {} THEN 0
    ELSE LET k == CHOOSE k \in S : TRUE IN f[k] + SumOver(S \ {k}, f)

-----------------------------------------------------------------------------
(* Pair *)

Absent == <<>>
NoError == "none"
\* Arguments carry their Python type: <<type, value>>.
PyStr(v) == <<"str", v>>
PyInt(v) == <<"int", v>>
NotAString == <<"NoneType", "None">>    \* a method argument that is not a str
NotAnInt == <<"float", 2>>              \* a lookback argument that is not an int

NumDates == Cardinality(DOMAIN closed[1])
Dates == 0 .. (NumDates - 1)

NoMethod == <<"", "">>
NoLookback == <<"", 0>>
Methods == {PyStr("OLS"), PyStr("TLS"), NotAString}
Lookbacks == {PyInt(v) : v \in -1 .. MaxLookback} \cup {NotAnInt}

\* isinstance(method, str), isinstance(lookback, int)
IsStr(method) == method[1] = "str"
IsInt(lookback_arg) == lookback_arg[1] = "int"

\* sm.ols("equity1 ~ equity2", df_lookback).fit().params[1]: the slope of
\* equity1's close on equity2's close (with intercept) over the rows W.
\* fit() solves by pseudo-inverse, so on a window where equity2's close is
\* constant (every window of one row) it is the minimum-norm solution.
OlsSlope(W) ==
    LET y == closed[1]
        x == closed[2]
        m == Cardinality(W)
        Sx == SumOver(W, x)
        Sy == SumOver(W, y)
        Sxx == SumOver(W, [k \in W |-> x[k] * x[k]])
        Sxy == SumOver(W, [k \in W |-> x[k] * y[k]])
        den == m * Sxx - Sx * Sx
        c == x[CHOOSE k \in W : TRUE]
    IN  IF den # 0 THEN Frac(m * Sxy - Sx * Sy, den)
        ELSE Frac(c * Sy, m * (1 + c * c))

ZeroRow == <<Int2Frac(0), Int2Frac(0)>>

\* df[(i - lookback):i]
WindowLookAhead(i, lb) == (i - lb + 1) .. i
Window(i, lb) == (i - lb) .. (i - 1)

\* the row written at iteration i: hedge_ratios[i - 1]
HedgeRowWindowStart(i, lb) == i - lb
HedgeRow(i, lb) == i - 1

RECURSIVE HedgeOlsLoop(_, _, _)
HedgeOlsLoop(hr, i, lb) ==
    IF i >= NumDates THEN hr
    ELSE HedgeOlsLoop(
            [hr EXCEPT ![HedgeRow(i, lb)] =
                <<Int2Frac(1), FracMul(Int2Frac(-1), OlsSlope(Window(i, lb)))>>],
            i + 1, lb)

_hedge_ols(lb) == HedgeOlsLoop([k \in Dates |-> ZeroRow], lb, lb)

\* the exception hedge(method, lb) raises
HedgeError(method, lb) ==
    IF ~IsStr(method) THEN "TypeError"
    ELSE IF ~IsInt(lb) THEN "TypeError"
    ELSE IF lb[2] <= 0 THEN "ValueError"
    ELSE IF method = PyStr("OLS") THEN NoError
    ELSE "ValueError"

\* whether hedge(method, lb) reaches the assignment to self.hedge_ratios
HedgeAssignsBeforeMethodCheck(method, lb) ==
    IsStr(method) /\ IsInt(lb) /\ lb[2] > 0
HedgeAssigns(method, lb) ==
    IsStr(method) /\ IsInt(lb) /\ lb[2] > 0 /\ method = PyStr("OLS")

hedge(method, lb) ==
    /\ hedge_ratios' = IF HedgeAssigns(method, lb) THEN _hedge_ols(lb[2])
                       ELSE hedge_ratios
    /\ last_err' = HedgeError(method, lb)
    /\ ever_hedged' = (ever_hedged \/ HedgeError(method, lb) = NoError)
    /\ last_call' = [op |-> "hedge", method |-> method, lookback |-> lb]
    /\ last_read' = Absent
    /\ UNCHANGED <<_price_spread, ever_read, closed, strategyVars>>

\* np.sum(self.hedge_ratios * prices, axis=1), one date
SpreadRowSwapped(h, k) ==
    FracAdd(FracMul(h[1], Int2Frac(closed[2][k])),
            FracMul(h[2], Int2Frac(closed[1][k])))
SpreadRow(h, k) ==
    FracAdd(FracMul(h[1], Int2Frac(closed[1][k])),
            FracMul(h[2], Int2Frac(closed[2][k])))

price_spread ==
    /\ last_call' = [op |-> "price_spread", method |-> NoMethod, lookback |-> NoLookback]
    /\ IF hedge_ratios = Absent
       THEN /\ last_err' = "Exception"
            /\ last_read' = Absent
            /\ UNCHANGED <<_price_spread, ever_read>>
       ELSE /\ _price_spread' =
                IF _price_spread = Absent
                THEN [k \in Dates |-> SpreadRow(hedge_ratios[k], k)]
                ELSE _price_spread
            /\ last_read' = _price_spread'
            /\ last_err' = NoError
            /\ ever_read' = TRUE
    /\ UNCHANGED <<hedge_ratios, ever_hedged, closed, strategyVars>>

-----------------------------------------------------------------------------
(* Strategy.returns *)

PriceScale == 1000 * 1000       \* a close price p stands for p / PriceScale
PosScale == 10 * 1000           \* a position q stands for q / PosScale shares

FirstCloses == {100000, 100001} \* first-date closes under SpecReturns
CloseSteps == {0, 20000}        \* day-over-day change of a close under SpecReturns
Positions1 == {0, 505, -1999}   \* positions() of equity1: 0, 0.0505, -0.1999
Positions2 == {0, 2009}         \* positions() of equity2: 0, 0.2009

RECURSIVE Pow10(_)
Pow10(k) == IF k = 0 THEN 1 ELSE 10 * Pow10(k - 1)

\* radium.helpers._truncate(v / scale, dec), as a multiple of 1 / scale:
\* v / scale cut toward zero to dec decimal places.
_truncate(v, scale, dec) ==
    LET q == scale \div Pow10(dec)
    IN  IF v >= 0 THEN (v \div q) * q ELSE -(((-v) \div q) * q)

\* _truncate(optimal_positions[i, e], 3) * 10 ** 3
RoundPosition(q) == (_truncate(q, PosScale, 3) * Pow10(3)) \div PosScale

\* range(self.lookback, optimal_positions.shape[0] - 1)
RoundDates(lb) == lb .. (NumDates - 2)

RoundedPositions(pos, lb) ==
    [i \in Dates |-> IF i \in RoundDates(lb)
                     THEN <<RoundPosition(pos[i][1]), RoundPosition(pos[i][2])>>
                     ELSE <<0, 0>>]

\* np.append(0, np.diff(rounded_positions[:, e]))
Orders(rp, e) ==
    [i \in Dates |-> IF i = 0 THEN 0 ELSE rp[i][e] - rp[i - 1][e]]

\* max(abs(x) * 0.0035, 0.35) if x != 0 else 0, in 1 / PriceScale
CommissionRate == (35 * PriceScale) \div 10000
MinCommission == (35 * PriceScale) \div 100
CommissionSigned(x) ==
    IF x # 0 THEN Max(x * CommissionRate, MinCommission) ELSE 0
Commission(x) ==
    IF x # 0 THEN Max(Abs(x) * CommissionRate, MinCommission) ELSE 0

\* 1000 * (equity1.closed.iloc[0] + equity2.closed.iloc[0])
InitBudget == 1000 * (closed[1][0] + closed[2][0])

\* range(0, len(equity1_orders) - 1): the exclusive end of the budget loop
BudgetLoopEndAllDates == NumDates
BudgetLoopEnd == NumDates - 1

RECURSIVE BudgetLoop(_, _, _, _)
BudgetLoop(b, i, ord, cm) ==
    IF i >= BudgetLoopEnd THEN b
    ELSE LET b1 == b + (-1 * ord[1][i] * closed[1][i] - cm[1][i])
             b2 == b1 + (-1 * ord[2][i] * closed[2][i] - cm[2][i])
         IN  BudgetLoop(b2, i + 1, ord, cm)

returns ==
    /\ pc = "idle"
    /\ LET rp == RoundedPositions(positions, lookback)
           ord == <<Orders(rp, 1), Orders(rp, 2)>>
           cm == <<[i \in Dates |-> Commission(ord[1][i])],
                   [i \in Dates |-> Commission(ord[2][i])]>>
           b == BudgetLoop(_truncate(InitBudget, PriceScale, 2), 0, ord, cm)
       IN  /\ rounded_positions' = rp
           /\ orders' = ord
           /\ comm' = cm
           /\ init_budget' = InitBudget
           /\ budget' = b
           /\ ret' = Frac(b - InitBudget, InitBudget)
    /\ pc' = "done"
    /\ UNCHANGED <<closed, positions, lookback, pairVars>>

-----------------------------------------------------------------------------
(* Specifications *)

StrategyIdle ==
    /\ rounded_positions = Absent
    /\ orders = Absent
    /\ comm = Absent
    /\ init_budget = 0
    /\ budget = 0
    /\ ret = Int2Frac(0)
    /\ pc = "idle"

PairFresh ==
    /\ hedge_ratios = Absent
    /\ _price_spread = Absent
    /\ last_call = [op |-> "__init__", method |-> NoMethod, lookback |-> NoLookback]
    /\ last_err = NoError
    /\ last_read = Absent
    /\ ever_hedged = FALSE
    /\ ever_read = FALSE

\* A pair over 2 .. MaxDates aligned dates, no strategy attached.
Init ==
    /\ \E n \in 2 .. MaxDates :
          closed \in [(0 .. (n - 1)) -> PairPrices1] \X [(0 .. (n - 1)) -> PairPrices2]
    /\ PairFresh
    /\ positions = Absent
    /\ lookback = 0
    /\ StrategyIdle

Next ==
    \/ \E method \in Methods, lb \in Lookbacks : hedge(method, lb)
    \/ price_spread

Spec == Init /\ [][Next]_vars

\* A strategy over a pair of 2 .. MaxBacktestDates aligned dates.
InitReturns ==
    /\ \E n \in 2 .. MaxBacktestDates :
          /\ \E p1 \in FirstCloses, p2 \in FirstCloses, s1 \in CloseSteps, s2 \in CloseSteps :
                closed = << [i \in 0 .. (n - 1) |-> p1 + i * s1],
                            [i \in 0 .. (n - 1) |-> p2 + i * s2] >>
          /\ positions \in [(0 .. (n - 1)) -> Positions1 \X Positions2]
    /\ lookback \in 0 .. MaxStrategyLookback
    /\ PairFresh
    /\ StrategyIdle

NextReturns == returns

SpecReturns == InitReturns /\ [][NextReturns]_vars

-----------------------------------------------------------------------------
(* Properties of Pair (specification Spec) *)

HedgeSucceeded == last_call.op = "hedge" /\ last_err = NoError
HedgeFailed == last_call.op = "hedge" /\ last_err # NoError
ReadSucceeded == last_call.op = "price_spread" /\ last_err = NoError
CalledLookback == last_call.lookback[2]

\* h1*close1 + h2*close2 for each date, from the hedge rows hr
SpreadFrom(hr) ==
    [k \in Dates |->
        Frac(hr[k][1][1] * closed[1][k] * hr[k][2][2]
                + hr[k][2][1] * closed[2][k] * hr[k][1][2],
             hr[k][1][2] * hr[k][2][2])]

\* C1: every successful read of price_spread returns, for each date,
\* h1*close1 + h2*close2 computed from the hedge ratios the pair currently
\* stores (those of the most recent successful hedge() call).
C1_ReadReturnsCurrentSpread ==
    ReadSucceeded => last_read = SpreadFrom(hedge_ratios)

\* C2: after a successful hedge('OLS', L), every row of hedge_ratios with
\* index < L is exactly [0, 0].
C2_RowsBelowLookbackZero ==
    HedgeSucceeded =>
        \A k \in Dates : k < CalledLookback => hedge_ratios[k] = ZeroRow

\* C2 (amended): after a successful hedge('OLS', L), every row of
\* hedge_ratios with index < L - 1 is exactly [0, 0]; row L - 1 is the first
\* row the regression loop writes.
C2_RowsBelowLookbackMinusOneZero ==
    HedgeSucceeded =>
        \A k \in Dates : k < CalledLookback - 1 => hedge_ratios[k] = ZeroRow

C2_Witness ==
    /\ HedgeSucceeded
    /\ CalledLookback >= 2
    /\ NumDates > CalledLookback
    /\ hedge_ratios[CalledLookback - 2] = ZeroRow
    /\ hedge_ratios[CalledLookback - 1] # ZeroRow

\* C4: a hedge() call that raises leaves hedge_ratios and the cached price
\* spread exactly as they were before the call.
C4_FailedHedgeLeavesState ==
    [][(last_call'.op = "hedge" /\ last_err' # NoError)
          => (hedge_ratios' = hedge_ratios /\ _price_spread' = _price_spread)]_vars

C4_Witness ==
    /\ HedgeFailed
    /\ last_err = "ValueError"
    /\ last_call.method = PyStr("TLS")
    /\ hedge_ratios # Absent
    /\ _price_spread # Absent

\* C5: while no hedge() call has succeeded, a read of price_spread raises and
\* leaves no cached spread; the first read that follows a successful hedge()
\* returns h1*close1 + h2*close2 for each date, using that date's hedge row.
C5_ReadBeforeAndFirstReadAfterHedge ==
    [][last_call'.op = "price_spread" =>
          IF ~ever_hedged
          THEN last_err' # NoError /\ _price_spread' = Absent
          ELSE ~ever_read =>
                  /\ last_err' = NoError
                  /\ last_read' = SpreadFrom(hedge_ratios)]_vars

C5_Witness ==
    /\ ReadSucceeded
    /\ last_read = SpreadFrom(hedge_ratios)
    /\ \E k \in Dates : hedge_ratios[k] # ZeroRow /\ last_read[k] # Int2Frac(0)
    /\ \E k \in Dates : closed[1][k] # closed[2][k]

\* regression sums over the rows lo .. hi
WindowN(lo, hi) == hi - lo + 1
WindowSxx(lo, hi) ==
    WindowN(lo, hi) * SumOver(lo .. hi, [k \in lo .. hi |-> closed[2][k] * closed[2][k]])
        - SumOver(lo .. hi, closed[2]) * SumOver(lo .. hi, closed[2])
WindowSxy(lo, hi) ==
    WindowN(lo, hi) * SumOver(lo .. hi, [k \in lo .. hi |-> closed[2][k] * closed[1][k]])
        - SumOver(lo .. hi, closed[2]) * SumOver(lo .. hi, closed[1])

\* beta is a least-squares slope of equity1's close on equity2's close over
\* rows lo .. hi: it solves the normal equation, and where equity2's close is
\* constant over the window (any slope solves it) it is the minimum-norm one.
IsOlsSlope(beta, lo, hi) ==
    /\ beta[1] * WindowSxx(lo, hi) = beta[2] * WindowSxy(lo, hi)
    /\ WindowSxx(lo, hi) = 0 =>
          beta = Frac(closed[2][lo] * SumOver(lo .. hi, closed[1]),
                      WindowN(lo, hi) * (1 + closed[2][lo] * closed[2][lo]))

\* C9: after a successful hedge('OLS', L) on n dates, for every i with
\* L <= i <= n-1 row i-1 is [1, -beta_i], beta_i being the OLS slope of
\* equity1's close on equity2's close over rows i-L .. i-1 only; every other
\* row is [0, 0].
C9_RowsAreTrailingOlsSlopes ==
    HedgeSucceeded =>
        \A k \in Dates :
            IF \E i \in CalledLookback .. (NumDates - 1) : k = i - 1
            THEN /\ hedge_ratios[k][1] = Int2Frac(1)
                 /\ IsOlsSlope(FracNeg(hedge_ratios[k][2]), k + 1 - CalledLookback, k)
            ELSE hedge_ratios[k] = ZeroRow

C9_Witness ==
    /\ HedgeSucceeded
    /\ CalledLookback >= 2
    /\ \E k \in Dates :
          /\ k + 1 \in Dates
          /\ hedge_ratios[k] # ZeroRow
          /\ hedge_ratios[k + 1] # ZeroRow
          /\ hedge_ratios[k] # hedge_ratios[k + 1]
          /\ WindowSxx(k + 1 - CalledLookback, k) # 0

-----------------------------------------------------------------------------
(* Properties of returns() (specification SpecReturns) *)

Done == pc = "done"
Equities == {1, 2}

\* C3: a strategy whose positions() is zero for both instruments at every
\* date has returns() exactly 0, the final budget being the initial budget
\* used as the divisor.
C3_ZeroPositionsReturnZero ==
    (Done /\ \A i \in Dates : positions[i] = <<0, 0>>)
        => (ret = Int2Frac(0) /\ budget = init_budget)

\* C6: the final budget is the initial budget truncated to 2 decimals minus,
\* summed over the date indexes 0 .. n-2 and both instruments,
\* order x close + commission of that date; the last date's order is left out.
C6_FinalBudget ==
    Done =>
        budget = _truncate(1000 * (closed[1][0] + closed[2][0]), PriceScale, 2)
                 - SumOver(0 .. (NumDates - 2),
                       [i \in 0 .. (NumDates - 2) |->
                           orders[1][i] * closed[1][i] + comm[1][i]
                           + orders[2][i] * closed[2][i] + comm[2][i]])

C6_Witness ==
    /\ Done
    /\ \E e \in Equities : orders[e][NumDates - 1] # 0
    /\ \E e \in Equities, i \in 0 .. (NumDates - 2) : orders[e][i] < 0
    /\ budget # _truncate(init_budget, PriceScale, 2)

\* C7: the commission on an order q is 0 when q = 0 and otherwise
\* max(|q| x 0.0035, 0.35): never below 0.35, the same for q and -q,
\* 0.35 for size 50 and 0.70 for size 200.
C7_Commission ==
    Done =>
        \A e \in Equities, i \in Dates :
            LET q == orders[e][i]
                c == comm[e][i]
                a == IF q < 0 THEN -q ELSE q
                cent == PriceScale \div 100
            IN  /\ q = 0 => c = 0
                /\ q # 0 =>
                      /\ c >= 35 * cent
                      /\ 100 * c >= 35 * a * cent
                      /\ (c = 35 * cent \/ 100 * c = 35 * a * cent)
                /\ a = 50 => c = 35 * cent
                /\ a = 200 => c = 70 * cent

C7_Witness ==
    /\ Done
    /\ \E e \in Equities, i \in Dates : orders[e][i] = 0 /\ comm[e][i] = 0
    /\ \E e \in Equities, i \in Dates : orders[e][i] = 50
    /\ \E e \in Equities, i \in Dates : orders[e][i] = -200

\* C8: the rounded position at date i is 0 when i < lookback, and for every
\* i >= lookback the position at i truncated toward zero to 3 decimals and
\* multiplied by 1000.
C8_RoundedPositions ==
    Done =>
        \A e \in Equities, i \in Dates :
            rounded_positions[i][e] =
                IF i < lookback THEN 0
                ELSE (_truncate(positions[i][e], PosScale, 3) * 1000) \div PosScale

\* C10: at every date index i the sum of an instrument's orders over dates
\* 0 .. i equals its rounded position at date i.
C10_OrdersSumToPosition ==
    Done =>
        \A e \in Equities, i \in Dates :
            SumOver(0 .. i, orders[e]) = rounded_positions[i][e]

====
